---- MODULE Spec2Model ----
(***************************************************************************)
(* Model of the rag-n-rock retrieval / ingestion core and of the request   *)
(* handlers that keep the relational store, the upload directory and the   *)
(* vector index in step: upload, delete, clear-all, chat, and the pipeline *)
(* operations ingest and retrieve.                                         *)
(*                                                                         *)
(* Python strings are sequences of one-character strings, so that          *)
(* os.path.splitext, str.lower and the substring test are computed.        *)
(* Metadata values are tagged [t, v] because the index compares values     *)
(* with their type: the integer 1 and the string "1" are different values. *)
(***************************************************************************)
EXTENDS Integers, Sequences, FiniteSets, TLC

----------------------------------------------------------------------------
(* Bounds of the model *)

MaxUploads == 2      \* upload names (uuids) and index batches in use at once
MaxFaulty == 1       \* requests of one behaviour in which a call fails
MaxChats == 1        \* rows of the chat history
HandleGens == 3      \* index handles told apart (a new one differs from the old)
MaxChunks == 2       \* chunks one document splits into
MaxK == 2            \* largest k a caller asks for

----------------------------------------------------------------------------
(* Python values *)

None == [t |-> "none", v |-> 0]

IntV(n) == [t |-> "int", v |-> n]

StrV(s) == [t |-> "str", v |-> s]

DictV(d) == [t |-> "dict", v |-> d]

ListV(l) == [t |-> "list", v |-> l]

\* Python truth value: None, 0, "", {} and [] are false
Truthy(x) ==
    CASE x.t = "none" -> FALSE
      [] x.t = "int" -> x.v # 0
      [] x.t = "str" -> Len(x.v) > 0
      [] x.t = "list" -> Len(x.v) > 0
      [] x.t = "dict" -> DOMAIN x.v # {}

Numeral == <<"1", "2", "3", "4", "5", "6", "7", "8", "9">>

\* str(x): the decimal text of an integer, the string itself for a string
str(x) ==
    IF x.t = "int" THEN StrV(<<Numeral[x.v]>>)
    ELSE IF x.t = "none" THEN StrV(<<"N", "o", "n", "e">>)
    ELSE x

UpperCase ==
    <<"A", "B", "C", "D", "E", "F", "G", "H", "I", "J", "K", "L", "M",
      "N", "O", "P", "Q", "R", "S", "T", "U", "V", "W", "X", "Y", "Z">>

LowerCase ==
    <<"a", "b", "c", "d", "e", "f", "g", "h", "i", "j", "k", "l", "m",
      "n", "o", "p", "q", "r", "s", "t", "u", "v", "w", "x", "y", "z">>

LowerChar(c) ==
    IF \E i \in 1..Len(UpperCase) : UpperCase[i] = c
    THEN LowerCase[CHOOSE i \in 1..Len(UpperCase) : UpperCase[i] = c]
    ELSE c

\* s.lower()
lower(s) == [i \in 1..Len(s) |-> LowerChar(s[i])]

LastIndexOf(s, c) ==
    LET I == {i \in 1..Len(s) : s[i] = c}
    IN  IF I = {} THEN 0 ELSE CHOOSE i \in I : \A j \in I : j <= i

\* os.path.splitext(p)[-1]: the text from the last dot of the last path
\* component, empty when that component has no dot or only leading dots
splitext(p) ==
    LET sep == LastIndexOf(p, "/")
        dot == LastIndexOf(p, ".")
    IN  IF dot > sep /\ (\E i \in (sep + 1)..(dot - 1) : p[i] # ".")
        THEN SubSeq(p, dot, Len(p))
        ELSE <<>>

\* needle in haystack (substring test)
Contains(haystack, needle) ==
    \E i \in 0..(Len(haystack) - Len(needle)) :
        SubSeq(haystack, i + 1, i + Len(needle)) = needle

\* dict.update: the pairs of b override those of a
DictUpdate(a, b) ==
    [key \in (DOMAIN a) \cup (DOMAIN b) |->
        IF key \in DOMAIN b THEN b[key] ELSE a[key]]

EmptyDict == [key \in {} |-> None]

Range(s) == {s[i] : i \in 1..Len(s)}

\* s[:k] for k >= 0
Take(s, k) == SubSeq(s, 1, IF k < Len(s) THEN k ELSE Len(s))

----------------------------------------------------------------------------
(* Configuration *)

ALLOWED_FILE_EXTENSIONS ==
    { <<".", "p", "d", "f">>, <<".", "d", "o", "c", "x">>, <<".", "t", "x", "t">>,
      <<".", "c", "s", "v">>, <<".", "x", "l", "s", "x">> }

UPLOAD_DIR == <<"f", "/">>

\* the User table: username -> id
UserTable == [alice |-> 1, bob |-> 2]

\* the names a validated token may carry; "ghost" has no User row
Callers == {"alice", "bob", "ghost"}

\* the chunking strategies a pipeline is built with
Strategies == {"auto", "header", "character"}

ADMIN_TOKEN == "supersecret"

Tokens == {"supersecret", "wrongtoken"}

\* the names users give their files: one the upload accepts, one it rejects
FileNames == { <<"a", ".", "T", "X", "T">>, <<"n", ".", "m", "d">> }

\* texts a chunk may hold
Contents == { <<"R", "e", "f", "u", "n", "d">>, <<"t", "a", "x">> }

----------------------------------------------------------------------------
(* State *)

VARIABLES
    chunking_strategy,  \* RAGPipeline.chunking_strategy
    files,              \* rows of the File table
    chats,              \* rows of the ChatHistory table
    disk,               \* paths present in the upload directory
    index,              \* entries of the vector index
    handle,             \* generation of rag_pipeline.vectorstore
    nfaulty,            \* requests so far in which a call failed
    inflight,           \* the upload being served in steps, or None
    last                \* the last request served and its response

vars ==
    <<chunking_strategy, files, chats, disk, index, handle, nfaulty, inflight, last>>

\* What is recorded of a request:
\*   op        the handler
\*   caller    the user name of the token once the handler has looked the
\*             user up ("" before); the admin token for a clear
\*   file_id   the file id asked for
\*   file      the File row the handler worked on
\*   status    the HTTP status of the response
\*   warnings  the warnings of the response body
\*   calls     the calls made on disk, database, index and model, in order
\*   failed    the calls among them that raised
\*   repeat    the request is a delete of the file id whose row the delete
\*             served just before removed
\*   out       the rest of the response body
Request(op) ==
    [op |-> op, caller |-> "", file_id |-> None, file |-> None, status |-> 0,
     warnings |-> <<>>, calls |-> <<>>, failed |-> {}, repeat |-> FALSE,
     out |-> None]

\* a request in which a call fails uses up one of the MaxFaulty
Faulty(failed) ==
    IF failed THEN nfaulty < MaxFaulty /\ nfaulty' = nfaulty + 1
    ELSE UNCHANGED nfaulty

\* RAGPipeline(vector_db_path=...).vectorstore: a handle that is not the old one
Reopen(h) == (h + 1) % HandleGens

\* the stores are empty and the pipeline is built with the strategy given
InitWith(strategies) ==
    /\ chunking_strategy \in strategies
    /\ files = {}
    /\ chats = {}
    /\ disk = {}
    /\ index = {}
    /\ handle = 0
    /\ nfaulty = 0
    /\ inflight = None
    /\ last = Request("none")

\* rag_pipeline = RAGPipeline(...): the strategy defaults to "auto"
Init == InitWith({"auto"})

\* a pipeline built with any strategy
InitAny == InitWith(Strategies)

----------------------------------------------------------------------------
(* RAGPipeline *)

\* a selection that compares the extension as it is written
header_selected_case_sensitive(strategy, file_path) ==
    LET ext == splitext(file_path)
    IN  \/ strategy = "header"
        \/ (strategy = "auto"
            /\ ext \in {<<".", "m", "d">>,
                        <<".", "m", "a", "r", "k", "d", "o", "w", "n">>})

\* the condition under which _get_text_splitter builds the header splitter
header_selected(strategy, file_path) ==
    LET ext == lower(splitext(file_path))
    IN  \/ strategy = "header"
        \/ (strategy = "auto"
            /\ ext \in {<<".", "m", "d">>,
                        <<".", "m", "a", "r", "k", "d", "o", "w", "n">>})

HeaderWarning == "Header splitter failed"

\* the warning _get_text_splitter logs; ctorRaises: building the header
\* splitter raised
splitter_warnings(strategy, file_path, ctorRaises) ==
    IF header_selected(strategy, file_path) /\ ctorRaises
    THEN <<HeaderWarning>> ELSE <<>>

\* the splitter _get_text_splitter returns
get_text_splitter(strategy, file_path, ctorRaises) ==
    IF header_selected(strategy, file_path) /\ ~ctorRaises
    THEN "header"
    ELSE "character"

\* a loader chain without the branch of the Excel loader
loader_for_no_xlsx(ext) ==
    IF ext = <<".", "p", "d", "f">> THEN "PyPDFLoader"
    ELSE IF ext = <<".", "d", "o", "c", "x">> THEN "UnstructuredWordDocumentLoader"
    ELSE IF ext = <<".", "t", "x", "t">> THEN "TextLoader"
    ELSE IF ext = <<".", "c", "s", "v">> THEN "CSVLoader"
    ELSE "none"

\* the loader load_document picks for an extension ("none": it raises
\* ValueError)
loader_for(ext) ==
    IF ext = <<".", "p", "d", "f">> THEN "PyPDFLoader"
    ELSE IF ext = <<".", "d", "o", "c", "x">> THEN "UnstructuredWordDocumentLoader"
    ELSE IF ext = <<".", "t", "x", "t">> THEN "TextLoader"
    ELSE IF ext = <<".", "c", "s", "v">> THEN "CSVLoader"
    ELSE IF ext = <<".", "x", "l", "s", "x">> THEN "UnstructuredExcelLoader"
    ELSE "none"

\* load_document: one document holding the file's text, given as the parts
\* the splitter will cut it into
load_document(file_path, parts, fault) ==
    LET ext == lower(splitext(file_path))
        loader == loader_for(ext)
    IN  IF loader = "none"
        THEN [ok |-> FALSE, loader |-> loader, calls |-> <<>>, docs |-> <<>>]
        ELSE IF fault = "load"
        THEN [ok |-> FALSE, loader |-> loader, calls |-> <<"load">>, docs |-> <<>>]
        ELSE [ok |-> TRUE, loader |-> loader, calls |-> <<"load">>,
              docs |-> <<[parts |-> parts,
                          metadata |-> [source |-> StrV(file_path)]]>>]

\* splitter.split_documents: every part becomes a chunk that copies the
\* metadata of its document
split_documents(docs) ==
    IF docs = <<>> THEN <<>>
    ELSE [i \in 1..Len(docs[1].parts) |->
            [page_content |-> docs[1].parts[i], metadata |-> docs[1].metadata]]

\* a tagging loop in which the metadata of the loader overrides the tags
tag_chunk_loader_wins(doc, file_path, metadata) ==
    [page_content |-> doc.page_content,
     metadata |->
        DictUpdate(IF Truthy(metadata) THEN DictUpdate(metadata.v, doc.metadata)
                   ELSE doc.metadata,
                   [source_file |-> StrV(file_path)])]

\* the tagging loop of ingest
tag_chunk(doc, file_path, metadata) ==
    [page_content |-> doc.page_content,
     metadata |->
        DictUpdate(IF Truthy(metadata) THEN DictUpdate(doc.metadata, metadata.v)
                   ELSE doc.metadata,
                   [source_file |-> StrV(file_path)])]

\* an ingest that hands the chunks to the index while it splits, so that a
\* failing split leaves chunks behind
ingest_adds_as_it_splits(strategy, file_path, metadata, parts, ctorRaises, fault) ==
    LET loaded == load_document(file_path, parts, fault)
        splitter == get_text_splitter(strategy, file_path, ctorRaises)
        warnings == splitter_warnings(strategy, file_path, ctorRaises)
        splits == split_documents(loaded.docs)
        tagged == [i \in 1..Len(splits) |-> tag_chunk(splits[i], file_path, metadata)]
    IN  IF ~loaded.ok
        THEN [ok |-> FALSE, calls |-> loaded.calls, batch |-> <<>>,
              splitter |-> "none", warnings |-> <<>>]
        ELSE IF fault = "split"
        THEN [ok |-> FALSE, calls |-> loaded.calls \o <<"select", "split">>,
              batch |-> tagged, splitter |-> splitter, warnings |-> warnings]
        ELSE [ok |-> fault # "vs.add",
              calls |-> loaded.calls \o <<"select", "split", "tag", "vs.add">>,
              batch |-> tagged, splitter |-> splitter, warnings |-> warnings]

\* an ingest that calls the loader a second time when its load fails
ingest_retries_load(strategy, file_path, metadata, parts, ctorRaises, fault) ==
    LET loaded == load_document(file_path, parts, "none")
        retried == IF fault = "load" THEN <<"load">> ELSE <<>>
        splitter == get_text_splitter(strategy, file_path, ctorRaises)
        warnings == splitter_warnings(strategy, file_path, ctorRaises)
        splits == split_documents(loaded.docs)
        tagged == [i \in 1..Len(splits) |-> tag_chunk(splits[i], file_path, metadata)]
    IN  IF ~loaded.ok
        THEN [ok |-> FALSE, calls |-> loaded.calls, batch |-> <<>>,
              splitter |-> "none", warnings |-> <<>>]
        ELSE IF fault = "split"
        THEN [ok |-> FALSE, calls |-> loaded.calls \o <<"select", "split">>,
              batch |-> <<>>, splitter |-> splitter, warnings |-> warnings]
        ELSE [ok |-> fault # "vs.add",
              calls |-> retried \o loaded.calls
                        \o <<"select", "split", "tag", "vs.add">>,
              batch |-> tagged, splitter |-> splitter, warnings |-> warnings]

\* ingest: ok, the calls made, the batch handed to add_documents, the
\* splitter used and the warnings logged
ingest(strategy, file_path, metadata, parts, ctorRaises, fault) ==
    LET loaded == load_document(file_path, parts, fault)
        splitter == get_text_splitter(strategy, file_path, ctorRaises)
        warnings == splitter_warnings(strategy, file_path, ctorRaises)
        splits == split_documents(loaded.docs)
        tagged == [i \in 1..Len(splits) |-> tag_chunk(splits[i], file_path, metadata)]
    IN  IF ~loaded.ok
        THEN [ok |-> FALSE, calls |-> loaded.calls, batch |-> <<>>,
              splitter |-> "none", warnings |-> <<>>]
        ELSE IF fault = "split"
        THEN [ok |-> FALSE, calls |-> loaded.calls \o <<"select", "split">>,
              batch |-> <<>>, splitter |-> splitter, warnings |-> warnings]
        ELSE [ok |-> fault # "vs.add",
              calls |-> loaded.calls \o <<"select", "split", "tag", "vs.add">>,
              batch |-> tagged, splitter |-> splitter, warnings |-> warnings]

\* the entries add_documents stores for the first n chunks of a batch; the
\* index names them with fresh ids, here the batch number b and the position
added_entries(batch, n, b) ==
    {[id |-> <<b, i>>, page_content |-> batch[i].page_content,
      metadata |-> batch[i].metadata] : i \in 1..n}

\* a retrieve that lets the caller's filter override the user_id
retrieve_filter_caller_wins(metadata_filter, user_id) ==
    IF user_id # None
    THEN DictV(DictUpdate([user_id |-> str(user_id)],
                          IF metadata_filter = None THEN EmptyDict
                          ELSE metadata_filter.v))
    ELSE metadata_filter

\* the filter retrieve hands to the index search
retrieve_filter(metadata_filter, user_id) ==
    IF user_id # None
    THEN DictV(DictUpdate(IF metadata_filter = None THEN EmptyDict
                          ELSE metadata_filter.v,
                          [user_id |-> str(user_id)]))
    ELSE metadata_filter

\* the index's equality filter: every key of the filter is present in the
\* entry's metadata with the same value of the same type
MatchesFilter(entry, filter) ==
    \A key \in DOMAIN filter :
        key \in DOMAIN entry.metadata /\ entry.metadata[key] = filter[key]

\* the entries an index search may consider
Candidates(idx, filter) ==
    IF Truthy(filter) THEN {e \in idx : MatchesFilter(e, filter.v)} ELSE idx

\* retriever.invoke: the k nearest candidates, nearest first; which entries
\* are nearest is the embedding model's choice, so every ranking is possible
vector_search(idx, k, filter) ==
    LET C == Candidates(idx, filter)
        n == IF k < Cardinality(C) THEN k ELSE Cardinality(C)
    IN  {r \in [1..n -> C] : \A i, j \in 1..n : r[i] = r[j] => i = j}

HasKeyword(doc, keywords) ==
    \E i \in 1..Len(keywords) :
        Contains(lower(doc.page_content), lower(keywords[i]))

\* list(dict.values()) of {id(doc): doc for doc in docs}: the first
\* occurrence of every object, in order of first occurrence
UniqueById(docs) ==
    LET Firsts == {i \in 1..Len(docs) : \A j \in 1..(i - 1) : docs[j].id # docs[i].id}
        F[i \in 0..Len(docs)] ==
            IF i = 0 THEN <<>>
            ELSE IF i \in Firsts THEN Append(F[i - 1], docs[i]) ELSE F[i - 1]
    IN  F[Len(docs)]

\* a keyword step that puts the keyword matches in front and stops there
keyword_rerank_no_cut(results, keywords, k) ==
    IF Truthy(keywords)
    THEN SelectSeq(results, LAMBDA doc : HasKeyword(doc, keywords.v)) \o results
    ELSE results

\* a keyword step that merges the hits before the keyword matches
keyword_rerank_no_promote(results, keywords, k) ==
    IF Truthy(keywords)
    THEN Take(UniqueById(results \o SelectSeq(results,
                            LAMBDA doc : HasKeyword(doc, keywords.v))), k)
    ELSE results

\* the keyword step of retrieve
keyword_rerank(results, keywords, k) ==
    IF Truthy(keywords)
    THEN LET keyword_results ==
                SelectSeq(results, LAMBDA doc : HasKeyword(doc, keywords.v))
         IN  Take(UniqueById(keyword_results \o results), k)
    ELSE results

----------------------------------------------------------------------------
(* Upload *)

\* the document texts of the model: one to MaxChunks chunks
Parts == UNION {[1..n -> Contents] : n \in 1..MaxChunks}

\* the texts of the files users upload: MaxChunks chunks, the first with
\* the keyword, the others without
UploadParts ==
    {p \in Parts : /\ Len(p) = MaxChunks
                   /\ p[1] = <<"R", "e", "f", "u", "n", "d">>
                   /\ \A i \in 2..Len(p) : p[i] = <<"t", "a", "x">>}

\* the call of an upload that fails, if any
UploadFaults == {"none", "disk.write", "db.add", "load", "split", "vs.add"}

\* the id the File table gives a new row (SQLite rowid: largest id plus one)
NewFileId(rows) ==
    IF rows = {} THEN 1
    ELSE (CHOOSE r \in rows : \A q \in rows : q.id <= r.id).id + 1

\* the uuid4 in a saved path
PathUuid(path) ==
    CHOOSE u \in 1..Len(Numeral) : Numeral[u] = path[Len(UPLOAD_DIR) + 1]

UsedUuids ==
    {PathUuid(path) : path \in disk \cup {f.filepath : f \in files}
                               \cup {e.metadata.source_file.v : e \in index}}

\* uuid4(): a name no file has; the least unused one stands for all of them
\* (0: the model has run out of names)
FreshUuid ==
    IF \E u \in 1..MaxUploads : u \notin UsedUuids
    THEN CHOOSE u \in 1..MaxUploads :
            u \notin UsedUuids /\ \A w \in 1..(u - 1) : w \in UsedUuids
    ELSE 0

\* the batch number of the ids the index gives the next added entries
FreshBatch ==
    LET used == {e.id[1] : e \in index}
    IN  IF \E b \in 1..MaxUploads : b \notin used
        THEN CHOOSE b \in 1..MaxUploads :
                b \notin used /\ \A w \in 1..(b - 1) : w \in used
        ELSE 0

\* util.file_handler.list_files
list_files(rows, user_id) == {f \in rows : f.user_id = user_id}

\* util.file_handler.upload_file: save the bytes, insert the File row
upload_file(filename, user_id, uuid, fault, rows, paths) ==
    LET ext == lower(splitext(filename))
        save_path == UPLOAD_DIR \o <<Numeral[uuid], "_">> \o filename
        db_file == [id |-> NewFileId(rows), filename |-> filename,
                    filepath |-> save_path, user_id |-> user_id]
    IN  IF ext \notin ALLOWED_FILE_EXTENSIONS
        THEN [status |-> 400, db_file |-> None, files |-> rows, disk |-> paths,
              calls |-> <<>>]
        ELSE IF fault = "disk.write"
        THEN [status |-> 500, db_file |-> None, files |-> rows, disk |-> paths,
              calls |-> <<"disk.write">>]
        ELSE IF fault = "db.add"
        THEN [status |-> 500, db_file |-> None, files |-> rows,
              disk |-> paths \cup {save_path},
              calls |-> <<"disk.write", "db.add", "db.rollback">>]
        ELSE [status |-> 200, db_file |-> db_file, files |-> rows \cup {db_file},
              disk |-> paths \cup {save_path},
              calls |-> <<"disk.write", "db.add", "db.commit">>]

\* a compensation that removes the file from disk and forgets the row
compensate_disk_only(db_file, rows, paths) ==
    [files |-> rows, disk |-> paths \ {db_file.filepath},
     calls |-> <<"os.remove">>]

\* the except branch of upload_file_in_db: db.delete(db_file); db.commit();
\* os.remove(db_file.filepath)
compensate(db_file, rows, paths) ==
    [files |-> rows \ {db_file}, disk |-> paths \ {db_file.filepath},
     calls |-> <<"db.delete", "db.commit", "os.remove">>]

\* an upload that looks its row up again before the ingest and gives up
\* when the row is gone
upload_ingest_checks_row(up, parts, fault, n) ==
    LET f == up.db_file
        ing == ingest(chunking_strategy, f.filepath,
                      DictV([file_id |-> IntV(f.id), filename |-> StrV(f.filename)]),
                      parts, FALSE, fault)
        comp == compensate(f, up.files, up.disk)
    IN  IF ing.ok /\ f \in up.files
        THEN [status |-> 200, files |-> up.files, disk |-> up.disk,
              index |-> index \cup added_entries(ing.batch, Len(ing.batch), FreshBatch),
              calls |-> up.calls \o ing.calls,
              out |-> [id |-> f.id, filename |-> f.filename]]
        ELSE [status |-> 500, files |-> comp.files, disk |-> comp.disk,
              index |-> IF ing.ok THEN index
                        ELSE index \cup added_entries(ing.batch, n, FreshBatch),
              calls |-> up.calls \o ing.calls \o comp.calls,
              out |-> None]

\* the rest of upload_file_in_db once the row exists: ingest, and on failure
\* the compensation; n is how many chunks the index stored before add failed
upload_ingest(up, parts, fault, n) ==
    LET f == up.db_file
        ing == ingest(chunking_strategy, f.filepath,
                      DictV([file_id |-> IntV(f.id), filename |-> StrV(f.filename)]),
                      parts, FALSE, fault)
        comp == compensate(f, up.files, up.disk)
    IN  IF ing.ok
        THEN [status |-> 200, files |-> up.files, disk |-> up.disk,
              index |-> index \cup added_entries(ing.batch, Len(ing.batch), FreshBatch),
              calls |-> up.calls \o ing.calls,
              out |-> [id |-> f.id, filename |-> f.filename]]
        ELSE [status |-> 500, files |-> comp.files, disk |-> comp.disk,
              index |-> index \cup added_entries(ing.batch, n, FreshBatch),
              calls |-> up.calls \o ing.calls \o comp.calls,
              out |-> None]

\* the extension check at the head of upload_file_in_db
allowed_at_upload(filename) ==
    lower(splitext(filename)) \in ALLOWED_FILE_EXTENSIONS

\* POST /upload (routes.file_routes.upload_file_in_db, main.upload_file_in_db)
upload_file_in_db ==
    \E caller \in Callers, filename \in FileNames :
        LET req == [Request("upload") EXCEPT !.caller = caller]
        IN  /\ IF ~allowed_at_upload(filename)
               THEN /\ last' = [Request("upload") EXCEPT !.status = 422,
                                    !.out = [filename |-> filename]]
                    /\ UNCHANGED <<files, disk, index, nfaulty>>
               ELSE IF caller \notin DOMAIN UserTable
               THEN /\ last' = [req EXCEPT !.status = 404]
                    /\ UNCHANGED <<files, disk, index, nfaulty>>
               ELSE /\ FreshUuid # 0
                    /\ FreshBatch # 0
                    /\ \E fault \in UploadFaults :
                        LET up == upload_file(filename, UserTable[caller],
                                              FreshUuid, fault, files, disk)
                            failed == IF fault = "none" THEN {} ELSE {fault}
                        IN  /\ Faulty(fault # "none")
                            /\ IF up.status # 200
                               THEN /\ last' = [req EXCEPT !.status = up.status,
                                                !.calls = up.calls,
                                                !.failed = failed]
                                    /\ files' = up.files
                                    /\ disk' = up.disk
                                    /\ UNCHANGED index
                               ELSE \E parts \in UploadParts :
                                    \E n \in IF fault = "vs.add" THEN 0..Len(parts)
                                             ELSE {0} :
                                       LET res == upload_ingest(up, parts, fault, n)
                                       IN  /\ last' = [req EXCEPT
                                                    !.file = up.db_file,
                                                    !.status = res.status,
                                                    !.calls = res.calls,
                                                    !.failed = failed,
                                                    !.out = res.out]
                                           /\ files' = res.files
                                           /\ disk' = res.disk
                                           /\ index' = res.index
            /\ UNCHANGED <<chunking_strategy, inflight, chats, handle>>

----------------------------------------------------------------------------
(* Upload, step by step: the handler holds no lock, so the requests of other
   callers are served between its calls *)

\* what the handler has at hand between its steps
Pending(caller, db_file, calls, parts, stage) ==
    [caller |-> caller, file |-> db_file, calls |-> calls, parts |-> parts,
     stage |-> stage]

\* the stores as the upload in flight finds them
PendingUpload ==
    [status |-> 200, db_file |-> inflight.file, files |-> files, disk |-> disk,
     calls |-> inflight.calls]

\* the reply of the upload in flight
PendingReply(res, failed) ==
    [Request("upload") EXCEPT !.caller = inflight.caller,
                              !.file = inflight.file,
                              !.status = res.status,
                              !.calls = res.calls,
                              !.failed = failed,
                              !.out = res.out]

\* upload_file_in_db up to the return of upload_file, for a request that
\* passes the checks and whose file and row are written (the requests that
\* end before are served in one step by upload_file_in_db)
upload_begin ==
    /\ inflight = None
    /\ FreshUuid # 0
    /\ FreshBatch # 0
    /\ \E caller \in DOMAIN UserTable, filename \in FileNames :
        LET up == upload_file(filename, UserTable[caller], FreshUuid, "none",
                              files, disk)
        IN  /\ allowed_at_upload(filename)
            /\ files' = up.files
            /\ disk' = up.disk
            /\ inflight' = Pending(caller, up.db_file, up.calls, <<>>, "stored")
    /\ UNCHANGED <<chunking_strategy, chats, index, handle, nfaulty, last>>

\* ingest up to the tagging loop: the loader reads the file from disk, and
\* fails when the file is gone; a failure ends the request with the
\* compensation
upload_load ==
    /\ inflight # None
    /\ inflight.stage = "stored"
    /\ \E parts \in UploadParts, fault \in {"none", "load", "split"} :
        LET missing == inflight.file.filepath \notin disk
            res == upload_ingest(PendingUpload, parts,
                                 IF missing THEN "load" ELSE fault, 0)
        IN  /\ missing => fault = "none"
            /\ Faulty(fault # "none")
            /\ IF missing \/ fault # "none"
               THEN /\ files' = res.files
                    /\ disk' = res.disk
                    /\ last' = PendingReply(res, {IF missing THEN "load" ELSE fault})
                    /\ inflight' = None
               ELSE /\ inflight' = [inflight EXCEPT !.parts = parts,
                                                    !.stage = "loaded"]
                    /\ UNCHANGED <<files, disk, last>>
    /\ UNCHANGED <<chunking_strategy, chats, index, handle>>

\* the index add of ingest and the end of the request
upload_add ==
    /\ inflight # None
    /\ inflight.stage = "loaded"
    /\ FreshBatch # 0
    /\ \E fault \in {"none", "vs.add"} :
        \E n \in IF fault = "vs.add" THEN 0..Len(inflight.parts) ELSE {0} :
            LET res == upload_ingest(PendingUpload, inflight.parts, fault, n)
            IN  /\ Faulty(fault # "none")
                /\ files' = res.files
                /\ disk' = res.disk
                /\ index' = res.index
                /\ last' = PendingReply(res, IF fault = "none" THEN {} ELSE {fault})
                /\ inflight' = None
    /\ UNCHANGED <<chunking_strategy, chats, handle>>

----------------------------------------------------------------------------
(* Delete *)

\* the calls of a delete that may fail, named as in the record of calls
DeleteFaults ==
    SUBSET {"os.remove", "db.delete", "vs.delete:file_id", "db.query",
            "vs.delete:filename"}

DiskWarning == "Failed to delete file from disk"

DbWarning == "Database cleanup failed."

FileIdWarning == "Vectorstore delete by file_id failed"

FilenameWarning == "Vectorstore delete by filename failed"

\* a lookup that leaves out the filter on the id
FileById_any(rows, file_id) == rows

\* db.query(DBFile).filter(DBFile.id == file_id).first(): {row} or {}
FileById(rows, file_id) == {f \in rows : f.id = file_id}

\* a delete by filter that removes every entry
delete_where_all(idx, filter) == {}

\* a delete by filter that leaves the entries in place
delete_where_keeps_all(idx, filter) == idx

\* vectorstore.delete(where=filter): the entries that stay
delete_where(idx, filter) == {e \in idx : ~MatchesFilter(e, filter)}

\* util.file_handler.delete_file for a row that exists: remove the file from
\* disk (a missing file is passed over), delete the row; result is what the
\* function returns: the dict only when nothing failed
delete_file(db_file, faults, rows, paths) ==
    LET diskErr == IF "os.remove" \in faults THEN <<DiskWarning>> ELSE <<>>
        paths1 == IF "os.remove" \in faults THEN paths
                  ELSE paths \ {db_file.filepath}
        dbErr == IF "db.delete" \in faults THEN <<DbWarning>> ELSE <<>>
        rows1 == IF "db.delete" \in faults THEN rows ELSE rows \ {db_file}
        errors == diskErr \o dbErr
    IN  [result |-> IF errors # <<>> THEN None
                    ELSE DictV([status |-> "deleted", warnings |-> errors]),
         files |-> rows1, disk |-> paths1,
         calls |-> <<"os.remove", "db.delete">>
                   \o (IF "db.delete" \in faults THEN <<"db.rollback">>
                       ELSE <<"db.commit">>)]

\* a first attempt whose failure is swallowed without a warning
fid_attempt_silent(file_id, faults, idx) ==
    [index |-> IF "vs.delete:file_id" \in faults THEN idx
               ELSE delete_where(idx, [file_id |-> IntV(file_id)]),
     done |-> "vs.delete:file_id" \notin faults,
     warnings |-> <<>>,
     calls |-> <<"vs.delete:file_id">>]

\* the first try block: delete the entries tagged with the file id
fid_attempt(file_id, faults, idx) ==
    LET fails == "vs.delete:file_id" \in faults
    IN  [index |-> IF fails THEN idx
                   ELSE delete_where(idx, [file_id |-> IntV(file_id)]),
         done |-> ~fails,
         warnings |-> IF fails THEN <<FileIdWarning>> ELSE <<>>,
         calls |-> <<"vs.delete:file_id">>]

\* the second try block: look the row up again and, if it is still there,
\* delete the entries tagged with its filename
fname_attempt(file_id, faults, rows, idx) ==
    LET found == FileById(rows, file_id)
        queryFails == "db.query" \in faults
        called == ~queryFails /\ found # {}
        fails == queryFails \/ (called /\ "vs.delete:filename" \in faults)
        db_file == CHOOSE f \in found : TRUE
    IN  [index |-> IF called /\ ~fails
                   THEN delete_where(idx, [filename |-> StrV(db_file.filename)])
                   ELSE idx,
         done |-> called /\ ~fails,
         warnings |-> IF fails THEN <<FilenameWarning>> ELSE <<>>,
         calls |-> <<"db.query">>
                   \o (IF called THEN <<"vs.delete:filename">> ELSE <<>>)]

\* the index clean-up of routes.file_routes.delete_file_in_db after
\* delete_file returned a result: both attempts, then the reopening
delete_embeddings(file_id, faults, rows, idx, h) ==
    LET first == fid_attempt(file_id, faults, idx)
        second == fname_attempt(file_id, faults, rows, first.index)
        errors == first.warnings \o second.warnings
    IN  [index |-> second.index, handle |-> Reopen(h), warnings |-> errors,
         status |-> IF errors # <<>> THEN "partial_success" ELSE "deleted",
         calls |-> first.calls \o second.calls \o <<"reopen">>]

\* the index clean-up of main.delete_file_in_db: each attempt reopens the
\* index when its delete went through, and the status is always "deleted"
main_delete_embeddings(file_id, faults, rows, idx, h) ==
    LET first == fid_attempt(file_id, faults, idx)
        h1 == IF first.done THEN Reopen(h) ELSE h
        second == fname_attempt(file_id, faults, rows, first.index)
    IN  [index |-> second.index,
         handle |-> IF second.done THEN Reopen(h1) ELSE h1,
         warnings |-> first.warnings \o second.warnings,
         status |-> "deleted",
         calls |-> first.calls \o (IF first.done THEN <<"reopen">> ELSE <<>>)
                   \o second.calls
                   \o (IF second.done THEN <<"reopen">> ELSE <<>>)]

\* an ownership check that lets every user through
not_owner_never(db_file, user_id) == FALSE

\* db_file.user_id != db_user.id
not_owner(db_file, user_id) == db_file.user_id # user_id

\* the delete just served removed the row of this file id
JustRemoved(file_id) ==
    /\ last.op \in {"delete", "main_delete"}
    /\ last.file_id = IntV(file_id)
    /\ last.file # None
    /\ last.file \notin files

\* DELETE /files/{file_id}, with the clean-up of either application
DeleteHandler(op) ==
    \E caller \in Callers, file_id \in 1..MaxUploads :
        LET found == FileById(files, file_id)
            db_file == CHOOSE f \in found : TRUE
            req == [Request(op) EXCEPT !.file_id = IntV(file_id),
                                       !.repeat = JustRemoved(file_id)]
            looked == [req EXCEPT !.caller = caller, !.file = db_file]
        IN  /\ IF found = {}
               THEN /\ last' = [req EXCEPT !.status = 404]
                    /\ UNCHANGED <<files, disk, index, handle, nfaulty>>
               ELSE IF caller \notin DOMAIN UserTable
               THEN /\ last' = [looked EXCEPT !.status = 404]
                    /\ UNCHANGED <<files, disk, index, handle, nfaulty>>
               ELSE IF not_owner(db_file, UserTable[caller])
               THEN /\ last' = [looked EXCEPT !.status = 403]
                    /\ UNCHANGED <<files, disk, index, handle, nfaulty>>
               ELSE \E faults \in DeleteFaults :
                    LET del == delete_file(db_file, faults, files, disk)
                        vec == IF op = "delete"
                               THEN delete_embeddings(file_id, faults, del.files,
                                                      index, handle)
                               ELSE main_delete_embeddings(file_id, faults,
                                                           del.files, index, handle)
                    IN  /\ faults \subseteq
                             Range(del.calls
                                   \o IF del.result = None THEN <<>> ELSE vec.calls)
                        /\ Faulty(faults # {})
                        /\ files' = del.files
                        /\ disk' = del.disk
                        /\ IF del.result = None
                           THEN \* result.get("warnings", []) on None raises
                                /\ last' = [looked EXCEPT !.status = 500,
                                                !.calls = del.calls,
                                                !.failed = faults]
                                /\ UNCHANGED <<index, handle>>
                           ELSE /\ index' = vec.index
                                /\ handle' = vec.handle
                                /\ last' = [looked EXCEPT !.status = 200,
                                                !.warnings = del.result.v.warnings
                                                             \o vec.warnings,
                                                !.calls = del.calls \o vec.calls,
                                                !.failed = faults,
                                                !.out = vec.status]
            /\ UNCHANGED <<chunking_strategy, inflight, chats>>

\* routes.file_routes.delete_file_in_db
delete_file_in_db == DeleteHandler("delete")

\* main.delete_file_in_db
main_delete_file_in_db == DeleteHandler("main_delete")

----------------------------------------------------------------------------
(* Clear all *)

\* the call of a clear that fails, if any
ClearFaults == {"none", "db.commit", "vs.get", "vs.delete:ids", "reopen"}

\* a token check that lets every token through
token_ok_always(admin_token, admin_env_token) == TRUE

\* the token check of clear_all_service
token_ok(admin_token, admin_env_token) == admin_token = admin_env_token

\* vectorstore.get()["ids"]
all_ids(idx) == {e.id : e \in idx}

\* a delete by ids that leaves the entries in place
delete_ids_noop(idx, ids) == idx

\* vectorstore.delete(ids=ids): the entries that stay
delete_ids(idx, ids) == {e \in idx : e.id \notin ids}

\* a clear whose rollback takes back the deletions of the rows
clear_all_rolls_back(rows, chatRows, idx, h, fault) ==
    LET ids == all_ids(idx)
        calls == <<"chat.delete", "file.delete", "db.commit", "vs.get">>
                 \o (IF ids # {} THEN <<"vs.delete:ids">> ELSE <<>>)
                 \o <<"reopen">>
    IN  IF fault = "none"
        THEN [status |-> 200, files |-> {}, chats |-> {},
              index |-> delete_ids(idx, ids), handle |-> Reopen(h),
              calls |-> calls,
              out |-> [status |-> "cleared", files_deleted |-> Cardinality(rows),
                       chats_deleted |-> Cardinality(chatRows)]]
        ELSE [status |-> 500, files |-> rows, chats |-> chatRows,
              index |-> idx, handle |-> h,
              calls |-> calls \o <<"db.rollback">>, out |-> None]

\* the try block of clear_all_service and its except branch
clear_all(rows, chatRows, idx, h, fault) ==
    LET chat_count == Cardinality(chatRows)
        file_count == Cardinality(rows)
        ids == all_ids(idx)
        dbCalls == <<"chat.delete", "file.delete", "db.commit">>
        delCalls == IF ids # {} THEN <<"vs.delete:ids">> ELSE <<>>
        Result(status, rows1, chatRows1, idx1, h1, calls, out) ==
            [status |-> status, files |-> rows1, chats |-> chatRows1,
             index |-> idx1, handle |-> h1, calls |-> calls, out |-> out]
    IN  IF fault = "db.commit"
        THEN Result(500, rows, chatRows, idx, h, dbCalls \o <<"db.rollback">>, None)
        ELSE IF fault = "vs.get"
        THEN Result(500, {}, {}, idx, h,
                    dbCalls \o <<"vs.get", "db.rollback">>, None)
        ELSE IF fault = "vs.delete:ids" /\ ids # {}
        THEN Result(500, {}, {}, idx, h,
                    dbCalls \o <<"vs.get">> \o delCalls \o <<"db.rollback">>, None)
        ELSE IF fault = "reopen"
        THEN Result(500, {}, {}, delete_ids(idx, ids), h,
                    dbCalls \o <<"vs.get">> \o delCalls
                    \o <<"reopen", "db.rollback">>, None)
        ELSE Result(200, {}, {}, delete_ids(idx, ids), Reopen(h),
                    dbCalls \o <<"vs.get">> \o delCalls \o <<"reopen">>,
                    [status |-> "cleared", files_deleted |-> file_count,
                     chats_deleted |-> chat_count])

\* util.sudo_handler.clear_all_service
clear_all_service ==
    \E admin_token \in Tokens :
        LET req == [Request("clear") EXCEPT !.caller = admin_token]
        IN  /\ IF ~token_ok(admin_token, ADMIN_TOKEN)
               THEN /\ last' = [req EXCEPT !.status = 401]
                    /\ UNCHANGED <<files, chats, index, handle, nfaulty>>
               ELSE \E fault \in ClearFaults :
                    LET res == clear_all(files, chats, index, handle, fault)
                    IN  /\ fault \in {"none"} \cup Range(res.calls)
                        /\ Faulty(fault # "none")
                        /\ files' = res.files
                        /\ chats' = res.chats
                        /\ index' = res.index
                        /\ handle' = res.handle
                        /\ last' = [req EXCEPT !.status = res.status,
                                        !.calls = res.calls,
                                        !.failed = IF fault = "none" THEN {}
                                                   ELSE {fault},
                                        !.out = res.out]
            /\ UNCHANGED <<chunking_strategy, inflight, disk>>

----------------------------------------------------------------------------
(* Chat *)

\* the call of a chat that fails, if any
ChatFaults == {"none", "vs.search", "llm.invoke", "db.commit"}

\* the file_id a chat request may carry
ChatFileIds == {None} \cup {IntV(i) : i \in 0..MaxUploads}

\* the keywords a request may carry
KeywordLists == {None, ListV(<< <<"r", "e", "F">> >>)}

\* the metadata_filter a chat request may carry
ChatFilters == {None} \cup {DictV([file_id |-> IntV(i)]) : i \in 1..MaxUploads}

\* the id the ChatHistory table gives a new row
NewChatId(rows) ==
    IF rows = {} THEN 1
    ELSE (CHOOSE r \in rows : \A q \in rows : q.id <= r.id).id + 1

\* d.metadata.get(key)
MetaGet(doc, key) ==
    IF key \in DOMAIN doc.metadata THEN doc.metadata[key] ELSE None

\* the filter chat_service hands to retrieve
chat_filter(file_id, metadata_filter) ==
    IF Truthy(file_id)
    THEN DictV(DictUpdate(IF metadata_filter = None THEN EmptyDict
                          ELSE metadata_filter.v,
                          [file_id |-> file_id]))
    ELSE metadata_filter

\* a chat that puts every retrieved document into the prompt
owned_docs_unfiltered(docs, db_files) == docs

\* the documents chat_service keeps of those retrieved: the ones tagged with
\* the id of a file of the user
owned_docs(docs, db_files) ==
    LET current_file_ids == {str(IntV(f.id)) : f \in db_files}
    IN  SelectSeq(docs, LAMBDA d : str(MetaGet(d, "file_id")) \in current_file_ids)

\* the calls chat_service makes once the request is admitted, up to the one
\* that fails: the except branch rolls back
chat_calls(fault) ==
    IF fault = "vs.search" THEN <<"vs.search", "db.rollback">>
    ELSE IF fault = "llm.invoke" THEN <<"vs.search", "llm.invoke", "db.rollback">>
    ELSE IF fault = "db.commit"
    THEN <<"vs.search", "llm.invoke", "db.add", "db.commit", "db.rollback">>
    ELSE <<"vs.search", "llm.invoke", "db.add", "db.commit">>

\* chat rows that keep the row of a turn whose commit failed
chat_rows_after_no_rollback(rows, user_id, file_id, fault) ==
    IF fault \in {"none", "db.commit"}
    THEN rows \cup {[id |-> NewChatId(rows), user_id |-> user_id,
                     file_id |-> file_id]}
    ELSE rows

\* the chat rows after a turn that got past its checks: the row is added
\* and committed when no call failed, and rolled back otherwise
chat_rows_after(rows, user_id, file_id, fault) ==
    IF fault = "none"
    THEN rows \cup {[id |-> NewChatId(rows), user_id |-> user_id,
                     file_id |-> file_id]}
    ELSE rows

\* util.chat_handler.chat_service
chat_service ==
    \E caller \in Callers, file_id \in ChatFileIds :
        LET req == [Request("chat") EXCEPT !.caller = caller, !.file_id = file_id]
            db_files == {f \in files : f.user_id = UserTable[caller]}
            valid_file_ids == {IntV(f.id) : f \in db_files}
        IN  /\ IF caller \notin DOMAIN UserTable
               THEN /\ last' = [req EXCEPT !.status = 404,
                                           !.calls = <<"db.rollback">>]
                    /\ UNCHANGED <<chats, nfaulty>>
               ELSE IF db_files = {}
               THEN /\ last' = [req EXCEPT !.status = 200,
                                    !.out = [answer |-> "no files", docs |-> <<>>]]
                    /\ UNCHANGED <<chats, nfaulty>>
               ELSE IF Truthy(file_id) /\ file_id \notin valid_file_ids
               THEN /\ last' = [req EXCEPT !.status = 403,
                                           !.calls = <<"db.rollback">>]
                    /\ UNCHANGED <<chats, nfaulty>>
               ELSE \E fault \in ChatFaults :
                    /\ Faulty(fault # "none")
                    /\ IF fault # "none"
                       THEN /\ last' = [req EXCEPT !.status = 500,
                                           !.failed = {fault},
                                           !.calls = chat_calls(fault)]
                            /\ chats' = chat_rows_after(chats, UserTable[caller],
                                                        file_id, fault)
                       ELSE \E keywords \in KeywordLists,
                               metadata_filter \in ChatFilters, k \in 1..MaxK :
                            LET filter == retrieve_filter(
                                    chat_filter(file_id, metadata_filter), None)
                            IN  \E hits \in vector_search(index, k, filter) :
                                LET retrieved == keyword_rerank(hits, keywords, k)
                                    docs == owned_docs(retrieved, db_files)
                                IN  /\ Cardinality(chats) < MaxChats
                                    /\ chats' = chat_rows_after(chats,
                                                    UserTable[caller], file_id, fault)
                                    /\ last' = [req EXCEPT !.status = 200,
                                           !.calls = chat_calls("none"),
                                           !.out = [answer |-> "answer",
                                                    docs |-> docs]]
            /\ UNCHANGED <<chunking_strategy, inflight, files, disk, index, handle>>

----------------------------------------------------------------------------
(* The pipeline called directly *)

\* the paths handed to ingest: one the loader reads, one it refuses
IngestPaths ==
    { UPLOAD_DIR \o <<"a", ".", "T", "X", "T">>, UPLOAD_DIR \o <<"n", ".", "m", "d">> }

\* the tags handed to ingest: chunks of two users
IngestTags == { DictV([user_id |-> StrV(<<"1">>)]), DictV([user_id |-> StrV(<<"2">>)]) }

\* the tags of a caller at large: none, a user's, and tags that name the
\* keys the loader and ingest set themselves
AnyTags ==
    { None, DictV([user_id |-> StrV(<<"1">>)]),
      DictV([user_id |-> StrV(<<"1">>), source |-> StrV(<<"x">>),
             source_file |-> StrV(<<"x">>)]) }

\* the texts handed to ingest: MaxChunks chunks, the first with or without
\* the keyword, the others without (and so alike)
IngestParts ==
    {p \in Parts : Len(p) = MaxChunks /\ \A i \in 2..Len(p) : p[i] = <<"t", "a", "x">>}

\* the call of an ingest that fails, if any
IngestFaults == {"none", "load", "split", "vs.add"}

\* the user_id handed to retrieve
RetrieveUsers == {None, IntV(1), StrV(<<"2">>)}

\* the metadata_filter handed to retrieve
RetrieveFilters == { None, DictV(EmptyDict), DictV([user_id |-> StrV(<<"2">>)]) }

\* RAGPipeline.ingest(file_path, metadata), for paths and tags of the sets
\* given
IngestCall(paths, tags) ==
    \E file_path \in paths, metadata \in tags, parts \in IngestParts,
       fault \in IngestFaults, ctorRaises \in BOOLEAN :
        LET ing == ingest(chunking_strategy, file_path, metadata, parts,
                          ctorRaises, fault)
        IN  /\ FreshBatch # 0
            /\ fault \in {"none"} \cup Range(ing.calls)
            /\ ctorRaises => /\ header_selected(chunking_strategy, file_path)
                             /\ "select" \in Range(ing.calls)
            /\ Faulty(fault # "none")
            /\ \E n \in IF ing.ok THEN {Len(ing.batch)} ELSE 0..Len(ing.batch) :
                /\ index' = index \cup added_entries(ing.batch, n, FreshBatch)
                /\ last' = [Request("ingest") EXCEPT
                                !.status = IF ing.ok THEN 200 ELSE 500,
                                !.calls = ing.calls,
                                !.failed = IF fault = "none" THEN {} ELSE {fault},
                                !.warnings = ing.warnings,
                                !.out = [file_path |-> file_path,
                                         metadata |-> metadata,
                                         batch |-> ing.batch,
                                         splitter |-> ing.splitter,
                                         ctorRaises |-> ctorRaises]]
            /\ UNCHANGED <<chunking_strategy, inflight, files, chats, disk, handle>>

\* ingest called with the tags of the users
pipeline_ingest == IngestCall(IngestPaths, IngestTags)

\* ingest called with the tags of a caller at large
pipeline_ingest_any == IngestCall(IngestPaths, AnyTags)

\* the paths handed to load_document and _get_text_splitter: the allowed
\* extensions in either letter case, the markdown ones, no extension, a
\* name that is only an extension, and an extension after an allowed one
LoadPaths ==
    { <<"a", ".", "T", "X", "T">>, <<"a", ".", "t", "x", "t">>,
      <<"b", ".", "p", "d", "f">>, <<"c", ".", "D", "o", "c", "x">>,
      <<"d", ".", "c", "s", "v">>, <<"e", ".", "X", "L", "S", "X">>,
      <<"n", ".", "m", "d">>, <<"n", ".", "M", "D">>,
      <<"h", ".", "m", "a", "r", "k", "d", "o", "w", "n">>,
      <<"g">>, <<".", "p", "d", "f">>, <<"f", ".", "x", "/", "g">>,
      <<"i", ".", "t", "x", "t", ".", "b", "a", "k">> }

\* RAGPipeline.load_document(file_path)
pipeline_load_document ==
    \E file_path \in LoadPaths, fault \in {"none", "load"} :
        LET loaded == load_document(file_path, << <<"t", "a", "x">> >>, fault)
        IN  /\ fault \in {"none"} \cup Range(loaded.calls)
            /\ Faulty(fault # "none")
            /\ last' = [Request("load") EXCEPT
                            !.status = IF loaded.ok THEN 200 ELSE 500,
                            !.calls = loaded.calls,
                            !.failed = IF fault = "none" THEN {} ELSE {fault},
                            !.out = [file_path |-> file_path,
                                     loader |-> loaded.loader,
                                     docs |-> Len(loaded.docs)]]
            /\ UNCHANGED <<chunking_strategy, inflight, files, chats, disk, index, handle>>

\* RAGPipeline._get_text_splitter(docs, file_path)
pipeline_get_text_splitter ==
    \E file_path \in LoadPaths, ctorRaises \in BOOLEAN :
        /\ ctorRaises => header_selected(chunking_strategy, file_path)
        /\ last' = [Request("select") EXCEPT
                        !.status = 200,
                        !.warnings = splitter_warnings(chunking_strategy, file_path,
                                                       ctorRaises),
                        !.out = [file_path |-> file_path,
                                 strategy |-> chunking_strategy,
                                 splitter |-> get_text_splitter(chunking_strategy,
                                                    file_path, ctorRaises),
                                 ctorRaises |-> ctorRaises]]
        /\ UNCHANGED <<chunking_strategy, inflight, files, chats, disk, index,
                       handle, nfaulty>>

\* RAGPipeline.retrieve(query, k, keywords, metadata_filter, user_id).
\* retrieve reads the index and changes nothing, so a retrieve that follows
\* another shows no result the first could not show: it is left out
pipeline_retrieve ==
    /\ last.op # "retrieve"
    /\ \E k \in 1..MaxK, keywords \in KeywordLists,
          metadata_filter \in RetrieveFilters, user_id \in RetrieveUsers,
          failed \in BOOLEAN :
        LET filter == retrieve_filter(metadata_filter, user_id)
            req == [Request("retrieve") EXCEPT !.calls = <<"vs.search">>]
            Out(hits, results) ==
                [k |-> k, keywords |-> keywords, user_id |-> user_id,
                 metadata_filter |-> metadata_filter, filter |-> filter,
                 hits |-> hits, results |-> results]
        IN  /\ Faulty(failed)
            /\ IF failed
               THEN last' = [req EXCEPT !.status = 500, !.failed = {"vs.search"},
                                       !.out = Out(<<>>, <<>>)]
               ELSE \E hits \in vector_search(index, k, filter) :
                        last' = [req EXCEPT !.status = 200,
                                    !.out = Out(hits, keyword_rerank(hits, keywords, k))]
    /\ UNCHANGED <<chunking_strategy, inflight, files, chats, disk, index, handle>>

----------------------------------------------------------------------------
(* Specifications *)

Next ==
    \/ upload_file_in_db
    \/ delete_file_in_db
    \/ main_delete_file_in_db
    \/ clear_all_service
    \/ chat_service

\* every handler of the application
Spec == Init /\ [][Next]_vars

NextFiles ==
    \/ upload_file_in_db
    \/ delete_file_in_db
    \/ main_delete_file_in_db

\* uploads and deletes
SpecFiles == Init /\ [][NextFiles]_vars

NextAdmin ==
    \/ upload_file_in_db
    \/ chat_service
    \/ clear_all_service

\* uploads, chats and the admin's clear
SpecAdmin == Init /\ [][NextAdmin]_vars

NextPipeline ==
    \/ pipeline_ingest
    \/ pipeline_retrieve

\* the pipeline called directly
SpecPipeline == Init /\ [][NextPipeline]_vars

NextRace ==
    \/ upload_begin
    \/ upload_load
    \/ upload_add
    \/ delete_file_in_db
    \/ clear_all_service

\* the statuses of a request that is refused before it changes anything
Refusals == {401, 403, 404, 422}

\* an upload served step by step, with deletes and clears in between, in
\* runs in which no call fails and no request is refused
SpecRace ==
    Init /\ [][NextRace /\ UNCHANGED nfaulty /\ last'.status \notin Refusals]_vars

NextSerial ==
    \/ upload_file_in_db
    \/ delete_file_in_db
    \/ main_delete_file_in_db
    \/ clear_all_service

\* uploads, deletes and clears served one at a time, in runs in which no
\* call fails
SpecSerial == Init /\ [][NextSerial /\ UNCHANGED nfaulty]_vars

NextChat ==
    \/ upload_file_in_db
    \/ delete_file_in_db
    \/ clear_all_service
    \/ chat_service

\* the calls of a delete on the index
IndexDeletes == {"vs.delete:file_id", "db.query", "vs.delete:filename"}

\* the first answered chat over the indexes that uploads, deletes and clears
\* leave behind, in runs in which the only calls that fail are index
\* deletions, no request is refused and no user holds two files at once
SpecChat ==
    Init /\ [][/\ NextChat
               /\ chats = {}
               /\ last'.failed \subseteq IndexDeletes
               /\ last'.status \notin Refusals
               /\ \A f, g \in files' : f.user_id = g.user_id => f = g]_vars

NextOwner ==
    \/ upload_file_in_db
    \/ delete_file_in_db
    \/ main_delete_file_in_db
    \/ chat_service

\* uploads, deletes and chats of two users up to the first answered chat, in
\* runs in which no call fails and no user holds two files at once
SpecOwner ==
    Init /\ [][/\ chats = {}
               /\ NextOwner
               /\ UNCHANGED nfaulty
               /\ \A f, g \in files' : f.user_id = g.user_id => f = g]_vars

NextLoader ==
    \/ upload_file_in_db
    \/ pipeline_load_document
    \/ pipeline_get_text_splitter

\* uploads, and the loader and the splitter selection called directly on a
\* pipeline of any strategy
SpecLoader == InitAny /\ [][NextLoader]_vars

NextIngest ==
    \/ pipeline_ingest_any

\* ingest called directly on a pipeline of any strategy
SpecIngest == InitAny /\ [][NextIngest]_vars

----------------------------------------------------------------------------
(* Properties of retrieve (SpecPipeline) *)

Retrieved == last.op = "retrieve" /\ last.status = 200

\* C1: a retrieve called with a user id U searches the index with the
\* equality filter user_id = str(U), whatever filter the caller supplied,
\* and every chunk it returns carries user_id = str(U)
RetrieveIsolatesUser ==
    (last.op = "retrieve" /\ last.out.user_id # None) =>
        /\ last.out.filter.t = "dict"
        /\ "user_id" \in DOMAIN last.out.filter.v
        /\ last.out.filter.v.user_id = str(last.out.user_id)
        /\ Range(last.out.hits) \subseteq Candidates(index, last.out.filter)
        /\ \A i \in 1..Len(last.out.results) :
              MetaGet(last.out.results[i], "user_id") = str(last.out.user_id)

\* user 1 retrieves with a filter that names user 2, the index holds chunks
\* of user 2, and chunks come back
RetrieveIsolatesUserWitness ==
    /\ Retrieved
    /\ last.out.user_id = IntV(1)
    /\ last.out.metadata_filter # None
    /\ "user_id" \in DOMAIN last.out.metadata_filter.v
    /\ last.out.metadata_filter.v.user_id = StrV(<<"2">>)
    /\ last.out.results # <<>>
    /\ \E e \in index : MetaGet(e, "user_id") = StrV(<<"2">>)

\* C9: retrieve returns at most k chunks, each one a hit of the one vector
\* search the call made
RetrieveWithinHits ==
    Retrieved =>
        /\ Len(last.out.results) <= last.out.k
        /\ Range(last.out.results) \subseteq Range(last.out.hits)
        /\ last.calls = <<"vs.search">>

\* keywords moved a hit to the front of a full result
RetrieveWithinHitsWitness ==
    /\ Retrieved
    /\ Truthy(last.out.keywords)
    /\ Len(last.out.hits) = MaxK
    /\ Len(last.out.results) = last.out.k
    /\ last.out.results[1] # last.out.hits[1]

\* C10: retrieve never returns two chunks with the same content and the
\* same metadata
RetrieveNoDuplicates ==
    Retrieved =>
        \A i, j \in 1..Len(last.out.results) :
            (/\ last.out.results[i].page_content = last.out.results[j].page_content
             /\ last.out.results[i].metadata = last.out.results[j].metadata)
            => i = j

\* C11: with keywords given, the hits that contain a keyword (as a
\* substring, letter case ignored) come before the hits that contain none,
\* and the hits of either group keep the order the vector search gave them
KeywordMatchesFirst ==
    (Retrieved /\ Truthy(last.out.keywords)) =>
        LET res == last.out.results
            hits == last.out.hits
            kws == last.out.keywords.v
            M(d) == \E w \in 1..Len(kws) :
                        Contains(lower(d.page_content), lower(kws[w]))
            Pos(d) == CHOOSE p \in 1..Len(hits) : hits[p] = d
        IN  /\ Len(res) = Len(hits)
            /\ Range(res) = Range(hits)
            /\ \A i, j \in 1..Len(res) :
                  i < j => /\ M(res[j]) => M(res[i])
                           /\ (M(res[i]) <=> M(res[j])) => Pos(res[i]) < Pos(res[j])

\* the second of two hits contains the keyword in another letter case and
\* the first does not: the two come back swapped
KeywordMatchesFirstWitness ==
    /\ Retrieved
    /\ Truthy(last.out.keywords)
    /\ Len(last.out.hits) = 2
    /\ last.out.hits[1].page_content = <<"t", "a", "x">>
    /\ last.out.hits[2].page_content = <<"R", "e", "f", "u", "n", "d">>
    /\ last.out.results = <<last.out.hits[2], last.out.hits[1]>>

\* how many times a call was made in the request last served
Times(call) == Cardinality({i \in 1..Len(last.calls) : last.calls[i] = call})

\* C19: an ingest calls the loader at most once and the index add at most
\* once, a retrieve calls the index search once; a call that fails is the
\* last call of its request, which ends in an error, and a failed retrieve
\* returns no chunk
NoRetries ==
    /\ last.op = "ingest" =>
          /\ Times("load") <= 1
          /\ Times("vs.add") <= 1
          /\ last.failed # {} =>
                /\ last.status = 500
                /\ last.failed = {last.calls[Len(last.calls)]}
    /\ last.op = "retrieve" =>
          /\ last.calls = <<"vs.search">>
          /\ last.status = IF last.failed = {} THEN 200 ELSE 500
          /\ last.failed # {} => last.out.results = <<>>

\* a retrieve failed in its search of a filled index
NoRetriesWitness ==
    /\ last.op = "retrieve"
    /\ last.failed = {"vs.search"}
    /\ last.status = 500
    /\ index # {}

----------------------------------------------------------------------------
(* Properties of ingest (SpecIngest) *)

\* an ingest reached its index add
Submitted == last.op = "ingest" /\ "vs.add" \in Range(last.calls)

\* the keys of the tags of the ingest last served
TagKeys ==
    IF Truthy(last.out.metadata) THEN DOMAIN last.out.metadata.v ELSE {}

\* C12 as stated: every chunk handed to the index carries every pair of the
\* tags as passed, and source_file equal to the path
ChunksCarryTags ==
    Submitted =>
        \A i \in 1..Len(last.out.batch) :
            LET md == last.out.batch[i].metadata
            IN  /\ \A key \in TagKeys :
                      key \in DOMAIN md /\ md[key] = last.out.metadata.v[key]
                /\ "source_file" \in DOMAIN md
                /\ md.source_file = StrV(last.out.file_path)

\* C12: every chunk handed to the index carries every pair of the tags
\* whose key is not source_file as passed, whatever the loader set, and
\* source_file equal to the path
ChunksCarryOtherTags ==
    Submitted =>
        \A i \in 1..Len(last.out.batch) :
            LET md == last.out.batch[i].metadata
            IN  /\ \A key \in TagKeys \ {"source_file"} :
                      key \in DOMAIN md /\ md[key] = last.out.metadata.v[key]
                /\ "source_file" \in DOMAIN md
                /\ md.source_file = StrV(last.out.file_path)

\* tags that name source (set by the loader) and source_file went into the
\* index: the chunks carry the tags' source and the path as source_file
ChunksCarryOtherTagsWitness ==
    /\ Submitted
    /\ last.status = 200
    /\ "source" \in TagKeys
    /\ "source_file" \in TagKeys
    /\ Len(last.out.batch) = MaxChunks
    /\ \E e \in index : /\ e.metadata.source = StrV(<<"x">>)
                        /\ e.metadata.source_file = StrV(last.out.file_path)

IngestSteps == <<"load", "select", "split", "tag", "vs.add">>

\* C18: the calls of an ingest are load, select, split, tag and one index
\* add, in this order, cut off after the one that fails; an ingest that did
\* not reach the add leaves the index as it was, and one in which nothing
\* failed added the whole batch, chunk for chunk
IngestInOrder ==
    [][last'.op = "ingest" =>
          /\ Len(last'.calls) <= Len(IngestSteps)
          /\ last'.calls = SubSeq(IngestSteps, 1, Len(last'.calls))
          /\ index \subseteq index'
          /\ "vs.add" \notin Range(last'.calls) => index' = index
          /\ last'.status = 200 =>
                /\ last'.calls = IngestSteps
                /\ Cardinality(index' \ index) = Len(last'.out.batch)
                /\ \A i \in 1..Len(last'.out.batch) :
                      \E e \in index' \ index :
                          /\ e.id[2] = i
                          /\ e.page_content = last'.out.batch[i].page_content
                          /\ e.metadata = last'.out.batch[i].metadata]_vars

\* an ingest failed in its split after another had filled the index
IngestInOrderWitness ==
    /\ last.op = "ingest"
    /\ last.calls = <<"load", "select", "split">>
    /\ last.status = 500
    /\ Cardinality(index) = MaxChunks

----------------------------------------------------------------------------
(* Properties of the loader and of the splitter selection (SpecLoader) *)

\* C13: the loader accepts a path exactly when the check at the head of the
\* upload accepts it, for the extensions of the allow-set in either letter
\* case and for every other one; a loader that refuses makes no call; an
\* upload refused at its head makes no call and leaves the rows, the disk
\* and the index as they are, and an upload that got past its head and
\* wrote its row reaches the loader's load
ExtensionsRejectedAlike ==
    [][/\ last'.op = "load" =>
             /\ (last'.out.loader # "none") <=> allowed_at_upload(last'.out.file_path)
             /\ last'.out.loader = "none" =>
                   last'.status = 500 /\ last'.calls = <<>>
       /\ (last'.op = "upload" /\ last'.status = 422) =>
             /\ ~allowed_at_upload(last'.out.filename)
             /\ last'.calls = <<>>
             /\ UNCHANGED <<files, disk, index, handle, chats>>
       /\ (last'.op = "upload" /\ last'.file # None) =>
             /\ allowed_at_upload(last'.file.filename)
             /\ "load" \in Range(last'.calls)]_vars

\* an upload was refused at its head while files were stored
ExtensionsRejectedAlikeWitness ==
    /\ last.op = "upload"
    /\ last.status = 422
    /\ last.out.filename = <<"n", ".", "m", "d">>
    /\ files # {}
    /\ index # {}

\* the paths of LoadPaths whose extension is .md or .markdown in some
\* letter case
MarkdownPaths ==
    { <<"n", ".", "m", "d">>, <<"n", ".", "M", "D">>,
      <<"h", ".", "m", "a", "r", "k", "d", "o", "w", "n">> }

----------------------------------------------------------------------------
(* Properties of upload and delete (SpecFiles) *)

IngestCalls == {"load", "split", "vs.add"}

\* C2: after an upload whose ingest failed, the row upload_file created is
\* in no list of files, its file is not on disk, and the reply is a 500
FailedIngestCompensated ==
    (last.op = "upload" /\ last.failed \cap IngestCalls # {}) =>
        /\ last.status = 500
        /\ last.file # None
        /\ last.file \notin list_files(files, last.file.user_id)
        /\ \A f \in files : f.id # last.file.id
        /\ last.file.filepath \notin disk

\* the index add failed after the row and the file were written, while
\* another file of the same user stays listed
FailedIngestCompensatedWitness ==
    /\ last.op = "upload"
    /\ last.failed = {"vs.add"}
    /\ last.file # None
    /\ "db.commit" \in Range(last.calls)
    /\ list_files(files, last.file.user_id) # {}

Deleted == last.op \in {"delete", "main_delete"}

\* the delete just served found the row, passed the ownership check and
\* removed the row
RemovedRecord ==
    /\ Deleted
    /\ last.file # None
    /\ last.caller \in DOMAIN UserTable
    /\ last.file.user_id = UserTable[last.caller]
    /\ last.file \notin files

\* C5: a delete that removed the row attempts the index deletion by file_id
\* and the index deletion by filename
DeleteAttemptsBoth ==
    RemovedRecord =>
        /\ "vs.delete:file_id" \in Range(last.calls)
        /\ "vs.delete:filename" \in Range(last.calls)

\* the warning a failed call of a delete leaves
WarningOf(call) ==
    IF call = "os.remove" THEN DiskWarning
    ELSE IF call = "db.delete" THEN DbWarning
    ELSE IF call = "vs.delete:file_id" THEN FileIdWarning
    ELSE FilenameWarning

\* C6: a delete by the owner of an existing file in which a step fails
\* answers 200, with a warning for each failure
DeletePartialFailureSucceeds ==
    (/\ Deleted
     /\ last.file # None
     /\ last.caller \in DOMAIN UserTable
     /\ last.file.user_id = UserTable[last.caller]
     /\ last.failed # {}) =>
        /\ last.status = 200
        /\ \A call \in last.failed : WarningOf(call) \in Range(last.warnings)

\* C7: a failed delete by file_id leaves its warning, the second attempt is
\* still evaluated and the call answers 200; a failed second attempt leaves
\* its warning and the call answers 200
IndexDeletesIndependent ==
    Deleted =>
        /\ "vs.delete:file_id" \in last.failed =>
              /\ FileIdWarning \in Range(last.warnings)
              /\ "db.query" \in Range(last.calls)
              /\ last.status = 200
        /\ last.failed \cap {"db.query", "vs.delete:filename"} # {} =>
              /\ FilenameWarning \in Range(last.warnings)
              /\ "vs.delete:file_id" \in Range(last.calls)
              /\ last.status = 200

\* both attempts of one delete failed
IndexDeletesIndependentWitness ==
    /\ Deleted
    /\ last.failed = {"vs.delete:file_id", "db.query"}
    /\ last.warnings = <<FileIdWarning, FilenameWarning>>
    /\ last.status = 200

\* C8: a delete of the file id whose row the delete before it removed
\* answers 404 and makes no call: the rows, the disk, the index and its
\* handle stay as they are
SecondDeleteNotFound ==
    [][\A file_id \in 1..MaxUploads :
          (/\ JustRemoved(file_id)
           /\ last'.op \in {"delete", "main_delete"}
           /\ last'.file_id = IntV(file_id)) =>
              /\ last'.status = 404
              /\ last'.calls = <<>>
              /\ UNCHANGED <<files, disk, index, handle>>]_vars

\* the second of two deletes of one id, while another file is still stored
SecondDeleteNotFoundWitness ==
    /\ Deleted
    /\ last.repeat
    /\ last.status = 404
    /\ files # {}

\* C14: a delete that made its index deletion attempts, whether they went
\* through or failed, has replaced the index handle by a new one after the
\* last index deletion it called
ReopenedAfterAttempts ==
    [][(/\ last'.op \in {"delete", "main_delete"}
        /\ "vs.delete:file_id" \in Range(last'.calls)) =>
          /\ handle' # handle
          /\ \E r \in 1..Len(last'.calls) :
                /\ last'.calls[r] = "reopen"
                /\ \A d \in 1..Len(last'.calls) :
                      last'.calls[d] \in {"vs.delete:file_id", "vs.delete:filename"}
                      => d < r]_vars

\* C24: a delete leaves in the index every entry that is tagged with a file
\* id other than the one asked for, and every entry without a file id
DeleteKeepsOtherFiles ==
    [][last'.op \in {"delete", "main_delete"} =>
          \A e \in index :
              MetaGet(e, "file_id") # last'.file_id => e \in index']_vars

\* a delete has removed a file and its chunks, and the index holds the
\* chunks of a file of the same name that belongs to another user
DeleteKeepsOtherFilesWitness ==
    /\ RemovedRecord
    /\ last.status = 200
    /\ "vs.delete:file_id" \in Range(last.calls)
    /\ last.failed = {}
    /\ \A e \in index : MetaGet(e, "file_id") # last.file_id
    /\ \E f \in files :
          /\ f.user_id # last.file.user_id
          /\ f.filename = last.file.filename
          /\ \E e \in index : /\ MetaGet(e, "file_id") = IntV(f.id)
                              /\ MetaGet(e, "filename") = StrV(last.file.filename)

----------------------------------------------------------------------------
(* Properties of chat (SpecAdmin) *)

\* the chat step added one row, of the caller
OneChatRowAdded ==
    \E row \in chats' \ chats :
        /\ chats' = chats \cup {row}
        /\ row.user_id = UserTable[last'.caller]

\* C16 as stated: a chat that answers 200 has added one row for the caller,
\* and a chat that ends in an error leaves the chat rows as they were
ChatRowPerSuccess ==
    [][last'.op = "chat" =>
          IF last'.status = 200 THEN OneChatRowAdded ELSE UNCHANGED chats]_vars

\* C16: a chat that answers 200 with a completion has added one row for the
\* caller; the fixed answer to a user without files is a 200 that adds no
\* row; a chat that ends in an error leaves the chat rows as they were
ChatRowPerCompletion ==
    [][last'.op = "chat" =>
          IF last'.status = 200 /\ "llm.invoke" \in Range(last'.calls)
          THEN OneChatRowAdded
          ELSE /\ UNCHANGED chats
               /\ last'.status = 200 =>
                     /\ last'.calls = <<>>
                     /\ list_files(files, UserTable[last'.caller]) = {}]_vars

\* a chat went through and its row is stored
ChatRowPerCompletionWitness ==
    /\ last.op = "chat"
    /\ last.status = 200
    /\ "db.commit" \in Range(last.calls)
    /\ \E row \in chats : row.user_id = UserTable[last.caller]

----------------------------------------------------------------------------
(* Properties of the prompt of a chat (SpecChat) *)

\* the file ids of the rows the caller of the last request owns
OwnedIds == {IntV(f.id) : f \in list_files(files, UserTable[last.caller])}

\* C22: every chunk a chat puts into the prompt is tagged with the id of a
\* File row the caller owns, whatever file_id, keywords and metadata_filter
\* the caller sent and whatever the index holds
ChatPromptOwned ==
    (last.op = "chat" /\ last.status = 200) =>
        \A i \in 1..Len(last.out.docs) :
            MetaGet(last.out.docs[i], "file_id") \in OwnedIds

\* a chat without file_id was answered with an empty prompt although the
\* index holds chunks of the caller's file: every chunk retrieved was of
\* another user's file, and none is in the prompt
ChatPromptOwnedWitness ==
    /\ last.op = "chat"
    /\ last.status = 200
    /\ last.out.answer = "answer"
    /\ last.file_id = None
    /\ \E e \in index : e.metadata.file_id \in OwnedIds
    /\ \E e \in index : e.metadata.file_id \notin OwnedIds
    /\ last.out.docs = <<>>

----------------------------------------------------------------------------
(* Properties of requests on the files of others (SpecOwner) *)

\* the request about to be answered is a delete by a user of a file that
\* exists and belongs to another user
ForeignDelete ==
    /\ last'.op \in {"delete", "main_delete"}
    /\ last'.caller \in DOMAIN UserTable
    /\ \E f \in files : /\ IntV(f.id) = last'.file_id
                        /\ f.user_id # UserTable[last'.caller]

\* the request about to be answered is a chat by a user that names a file
\* id which is not the id of a file of this user
ForeignChat ==
    /\ last'.op = "chat"
    /\ last'.caller \in DOMAIN UserTable
    /\ last'.file_id # None
    /\ \A f \in list_files(files, UserTable[last'.caller]) :
            IntV(f.id) # last'.file_id

\* the request made no call on disk, database, index or model and left
\* every store and the index handle as they were
NoEffect ==
    /\ Range(last'.calls) \subseteq {"db.rollback"}
    /\ UNCHANGED <<files, chats, disk, index, handle>>

\* C23 as stated: a delete of another user's file and a chat naming a file
\* id the user does not own are answered 403 and have no effect
ForeignRequestsForbidden ==
    [][(ForeignDelete \/ ForeignChat) => (last'.status = 403 /\ NoEffect)]_vars

\* C23: a delete of another user's file is answered 403; a chat naming a
\* file id other than 0 that the user does not own is answered 403 when the
\* user owns a file and with the 200 reply that no files are available when
\* the user owns none; none of these has an effect
ForeignRequestsRefused ==
    [][/\ ForeignDelete => (last'.status = 403 /\ NoEffect)
       /\ (ForeignChat /\ Truthy(last'.file_id)) =>
             /\ NoEffect
             /\ IF list_files(files, UserTable[last'.caller]) = {}
                THEN /\ last'.status = 200
                     /\ last'.out = [answer |-> "no files", docs |-> <<>>]
                ELSE last'.status = 403]_vars

\* a delete of another user's file was refused: the row, the file on disk
\* and the chunks of the file are there
ForeignRequestsRefusedWitness ==
    /\ last.op \in {"delete", "main_delete"}
    /\ last.status = 403
    /\ last.file \in files
    /\ last.file.user_id # UserTable[last.caller]
    /\ last.file.filepath \in disk
    /\ \E e \in index : e.metadata.file_id = IntV(last.file.id)

----------------------------------------------------------------------------
(* Properties of requests served at the same time (SpecRace) *)

\* the index entries tagged with a file id that no row has
Orphans ==
    {e \in index : /\ "file_id" \in DOMAIN e.metadata
                   /\ \A f \in files : IntV(f.id) # e.metadata.file_id}

\* C20: nothing keeps a clear or a delete from being served between the
\* insert of an upload's row and its index add, and an upload whose row was
\* removed in between still adds its chunks and answers 200: the index then
\* holds chunks tagged with a file id that no row has
RaceLeavesOrphans ==
    [][(/\ inflight # None
        /\ inflight.stage = "loaded"
        /\ inflight.file \notin files
        /\ last'.op = "upload"
        /\ last'.failed = {}) =>
          /\ last'.status = 200
          /\ inflight' = None
          /\ \A f \in files' : f.id # inflight.file.id
          /\ \E e \in index' \ index :
                /\ e.metadata.file_id = IntV(inflight.file.id)
                /\ e \in Orphans']_vars

\* both requests are over, no call has failed, and the index holds chunks of
\* the upload while no row has its file id
RaceLeavesOrphansWitness ==
    /\ inflight = None
    /\ nfaulty = 0
    /\ last.op = "upload"
    /\ last.status = 200
    /\ last.file \notin files
    /\ \E e \in Orphans : e.metadata.file_id = IntV(last.file.id)

----------------------------------------------------------------------------
(* Properties of requests served one at a time (SpecSerial) *)

\* C21: when requests are served one at a time and no call fails, every
\* entry of the index is tagged with the file id of a row of the File table
NoOrphansWhenSerial ==
    \A e \in index :
        /\ "file_id" \in DOMAIN e.metadata
        /\ \E f \in files : IntV(f.id) = e.metadata.file_id

\* a delete has removed one file and its chunks while the chunks of another
\* file are in the index
NoOrphansWhenSerialWitness ==
    /\ last.op \in {"delete", "main_delete"}
    /\ last.status = 200
    /\ last.file \notin files
    /\ index # {}
    /\ \A e \in index : \E f \in files : IntV(f.id) = e.metadata.file_id

----------------------------------------------------------------------------
(* Properties of clear all (SpecAdmin) *)

\* C3: a clear with a token that is not the configured one answers 401 and
\* leaves the file rows, the chat rows, the index entries and the index
\* handle as they were
ClearUnauthorizedChangesNothing ==
    [][(last'.op = "clear" /\ last'.caller # ADMIN_TOKEN) =>
          /\ last'.status = 401
          /\ last'.calls = <<>>
          /\ UNCHANGED <<files, chats, index, handle, disk>>]_vars

\* a clear was refused while files, chats and index entries existed
ClearUnauthorizedChangesNothingWitness ==
    /\ last.op = "clear"
    /\ last.status = 401
    /\ files # {}
    /\ chats # {}
    /\ index # {}

\* C4: a clear with the configured token in which nothing fails deletes the
\* chat rows, the file rows, commits, deletes every index entry and reopens
\* the index, in this order; it leaves no file row, no chat row and no index
\* entry, and reports the numbers of file and chat rows there were
ClearAllClears ==
    [][(last'.op = "clear" /\ last'.caller = ADMIN_TOKEN /\ last'.failed = {}) =>
          /\ last'.status = 200
          /\ last'.calls = <<"chat.delete", "file.delete", "db.commit", "vs.get">>
                           \o (IF index # {} THEN <<"vs.delete:ids">> ELSE <<>>)
                           \o <<"reopen">>
          /\ files' = {}
          /\ chats' = {}
          /\ index' = {}
          /\ handle' = Reopen(handle)
          /\ last'.out.files_deleted = Cardinality(files)
          /\ last'.out.chats_deleted = Cardinality(chats)]_vars

\* a clear went through that deleted files, chats and index entries
ClearAllClearsWitness ==
    /\ last.op = "clear"
    /\ last.status = 200
    /\ last.out.files_deleted > 0
    /\ last.out.chats_deleted > 0
    /\ "vs.delete:ids" \in Range(last.calls)
    /\ files = {} /\ chats = {} /\ index = {}

\* the calls of a clear on the index
IndexSteps == {"vs.get", "vs.delete:ids", "reopen"}

\* C25: a clear with the right token in which a call on the index fails is
\* answered 500 while the deletions of the rows stay committed: the File and
\* ChatHistory tables are empty, the index has lost no entry but those the
\* clear deleted (none when fetching the ids failed), and the index handle is
\* the old one
ClearIndexFailureKeepsCommit ==
    [][(last'.op = "clear" /\ last'.failed \cap IndexSteps # {}) =>
          /\ last'.caller = ADMIN_TOKEN
          /\ last'.status = 500
          /\ files' = {}
          /\ chats' = {}
          /\ index' \subseteq index
          /\ "vs.delete:ids" \notin Range(last'.calls) => index' = index
          /\ last'.failed # {"reopen"} => index' = index
          /\ handle' = handle]_vars

\* a clear failed on the index after uploads and a chat: the tables are
\* empty and the entries of the removed files are in the index
ClearIndexFailureKeepsCommitWitness ==
    /\ last.op = "clear"
    /\ last.status = 500
    /\ last.failed \cap IndexSteps # {}
    /\ files = {}
    /\ chats = {}
    /\ Cardinality({e.metadata.file_id : e \in index}) = MaxUploads

====
